---- MODULE Spec2Model ----
(***************************************************************************)
(* KEN Library (src/app.py): a Streamlit front end over one SQLite file,   *)
(* library.db.  The store is the variable db; every function of app.py     *)
(* that writes the store is an operator from a store to a store, and every *)
(* button or upload of a page is an action applying it.                    *)
(*                                                                         *)
(* Three specifications drive the code:                                    *)
(*   Spec        init_db, ensure_default_locations and main on library.db  *)
(*               as it is found on disk (absent, or holding objects of     *)
(*               other kinds under the required names);                    *)
(*   SpecIssue   the handlers of the Issue / Return, Books and Members     *)
(*               pages;                                                    *)
(*   SpecImport  the handlers of the Import / Export, Books, Members and   *)
(*               Locations pages.                                          *)
(* SpecIssue and SpecImport start from a store that holds the four tables  *)
(* the DDL of init_db declares.                                            *)
(***************************************************************************)
EXTENDS Integers, Sequences, FiniteSets, TLC

VARIABLES db, today, download, outcome, calls

vars == <<db, today, download, outcome, calls>>

(***************************************************************************)
(* Bounds of the model.                                                    *)
(***************************************************************************)
MaxBooks == 2
MaxMembers == 2
MaxExtraLocations == 1
MaxTransactions == 2
MaxDay == 1
MaxCalls == 2
MaxIgnored == 1

(* ensure_default_locations(45): src/app.py lines 319 and 429. *)
DefaultN == 45

(***************************************************************************)
(* Text.  Python str methods, computed character by character.             *)
(***************************************************************************)
SqlNull == "<NULL>"

UpperCase == "ABCDEFGHIJKLMNOPQRSTUVWXYZ"
LowerCase == "abcdefghijklmnopqrstuvwxyz"
Digits == "0123456789"
(* The characters of the modelled texts in code-point order (BINARY        *)
(* collation of SQLite, ORDER BY title).                                   *)
CodePoints == " #-./0123456789<>ABCDEFGHIJKLMNOPQRSTUVWXYZ_abcdefghijklmnopqrstuvwxyz~"
(* The em dash of the option labels of select_book; "~" stands for it.     *)
EmDash == "~"

CharAt(s, i) == SubSeq(s, i, i)

Chars(s) == {CharAt(s, i) : i \in 1..Len(s)}

IndexIn(alphabet, c) == CHOOSE i \in 1..Len(alphabet) : CharAt(alphabet, i) = c

ToLower == [c \in Chars(UpperCase) |-> CharAt(LowerCase, IndexIn(UpperCase, c))]
CodePoint == [c \in Chars(CodePoints) |-> IndexIn(CodePoints, c)]
DigitValue == [c \in Chars(Digits) |-> IndexIn(Digits, c) - 1]

(* str.lower *)
RECURSIVE lower(_)
lower(s) ==
    IF s = "" THEN ""
    ELSE LET c == CharAt(s, 1)
         IN (IF c \in DOMAIN ToLower THEN ToLower[c] ELSE c) \o lower(SubSeq(s, 2, Len(s)))

(* str.lstrip(chars), str.rstrip(chars), with chars the set of characters *)
RECURSIVE lstrip(_, _)
lstrip(s, chars) ==
    IF s # "" /\ CharAt(s, 1) \in chars
    THEN lstrip(SubSeq(s, 2, Len(s)), chars)
    ELSE s

RECURSIVE rstrip(_, _)
rstrip(s, chars) ==
    IF s # "" /\ CharAt(s, Len(s)) \in chars
    THEN rstrip(SubSeq(s, 1, Len(s) - 1), chars)
    ELSE s

(* str.strip(): the model's texts have no whitespace but the space *)
strip(s) == rstrip(lstrip(s, {" "}), {" "})

(* s < t in code-point order *)
RECURSIVE StrLess(_, _)
StrLess(s, t) ==
    IF t = "" THEN FALSE
    ELSE IF s = "" THEN TRUE
    ELSE LET a == CodePoint[CharAt(s, 1)]
             b == CodePoint[CharAt(t, 1)]
         IN IF a # b THEN a < b
            ELSE StrLess(SubSeq(s, 2, Len(s)), SubSeq(t, 2, Len(t)))

(* The text is an integer literal as the CSV parser reads one. *)
RECURSIVE AllDigits(_)
AllDigits(s) ==
    IF s = "" THEN TRUE
    ELSE CharAt(s, 1) \in DOMAIN DigitValue /\ AllDigits(SubSeq(s, 2, Len(s)))

IsIntText(s) == s # "" /\ AllDigits(s)

RECURSIVE IntOf(_)
IntOf(s) ==
    IF s = "" THEN 0
    ELSE 10 * IntOf(SubSeq(s, 1, Len(s) - 1)) + DigitValue[CharAt(s, Len(s))]

(***************************************************************************)
(* CSV.  An uploaded file is its header and its rows of raw cell texts.    *)
(* pd.read_csv types every column, and the import handlers then take       *)
(* str() of each cell: an empty or NA cell is NaN and prints "nan", a      *)
(* column of integer literals is int64 and prints without leading zeros,   *)
(* and an integer next to a NaN is float64 and prints with ".0".  Texts    *)
(* with a sign, a decimal point or an exponent are not among the inputs.   *)
(***************************************************************************)
NoFile == [columns |-> <<>>, rows |-> <<>>, none |-> TRUE]

CsvFile(columns, rows) == [columns |-> columns, rows |-> rows, none |-> FALSE]

(* The texts pd.read_csv reads as missing (its default na_values). *)
NaValues ==
    {"", "#N/A", "#N/A N/A", "#NA", "-1.#IND", "-1.#QNAN", "-NaN", "-nan", "1.#IND",
     "1.#QNAN", "<NA>", "N/A", "NA", "NULL", "NaN", "None", "n/a", "nan", "null"}

ColumnDtype(f, j) ==
    LET n == Len(f.rows)
        present == {i \in 1..n : f.rows[i][j] \notin NaValues}
    IN IF n = 0 THEN "object"
       ELSE IF present = {} THEN "float64"
       ELSE IF \A i \in present : IsIntText(f.rows[i][j])
            THEN (IF present = 1..n THEN "int64" ELSE "float64")
       ELSE "object"

(* df = pd.read_csv(f): the raw cells, the dtype of each column, and       *)
(* whether DataFrame.iterrows yields float64 rows (it builds each row as   *)
(* one Series, which is float64 throughout when every column is numeric    *)
(* and one of them is float64).                                            *)
read_csv(f) ==
    LET dtype == [j \in 1..Len(f.columns) |-> ColumnDtype(f, j)]
    IN [columns |-> f.columns,
        lowered |-> [j \in 1..Len(f.columns) |-> lower(f.columns[j])],
        rows |-> f.rows,
        dtype |-> dtype,
        float_rows |-> /\ \A j \in 1..Len(f.columns) : dtype[j] \in {"int64", "float64"}
                       /\ \E j \in 1..Len(f.columns) : dtype[j] = "float64"]

(* str(r.get(column)) for row i, column j of df. *)
StrOfCell(df, i, j) ==
    LET raw == df.rows[i][j]
    IN IF raw \in NaValues THEN "nan"
       ELSE IF df.dtype[j] = "int64" /\ ~df.float_rows THEN ToString(IntOf(raw))
       ELSE IF df.dtype[j] \in {"int64", "float64"} THEN ToString(IntOf(raw)) \o ".0"
       ELSE raw

(* cols = {c.lower(): c for c in df.columns}: a later column wins. *)
ColumnOf(df, name) ==
    CHOOSE j \in 1..Len(df.columns) :
        /\ df.lowered[j] = name
        /\ \A k \in 1..Len(df.columns) : df.lowered[k] = name => k <= j

(* Mutant: the required names are looked up as they are spelled. *)
HasColumnsAsSpelled(df, needed) ==
    needed \subseteq {df.columns[j] : j \in 1..Len(df.columns)}

(* needed.issubset(set(cols.keys())) *)
HasColumns(df, needed) == needed \subseteq {df.lowered[j] : j \in 1..Len(df.columns)}

BooksNeeded == {"title", "author", "genre", "default_location"}
MembersNeeded == {"name", "phone", "email"}
LocationsNeeded == {"name", "description"}

(* rows.append((str(r.get(c, "")).strip(), ...)) over df.iterrows() *)
FrameRows(df, names) ==
    LET col == [k \in 1..Len(names) |-> ColumnOf(df, names[k])]
    IN [i \in 1..Len(df.rows) |->
           [k \in 1..Len(names) |-> strip(StrOfCell(df, i, col[k]))]]

(* df.to_csv(index=False) of a cell: NULL is written as an empty field. *)
CsvCell(v) == IF v = SqlNull THEN "" ELSE v

(***************************************************************************)
(* The store: library.db.  sqlite_master gives the kind of the object each *)
(* name refers to ("none" when there is none); a table's rows are kept in  *)
(* rowid order; sqlite_sequence is the AUTOINCREMENT counter of each       *)
(* table, which an INSERT OR IGNORE advances also for a row it ignores.    *)
(***************************************************************************)
RequiredTables == <<"books", "members", "locations", "transactions">>

ObjectNames ==
    {"books", "members", "locations", "transactions",
     "ix_trans_open", "ix_trans_member", "idx_books_title_author"}

NoRows == [t \in {"books", "members", "locations", "transactions"} |-> 0]

EmptyDb ==
    [sqlite_master |-> [n \in ObjectNames |-> "none"],
     books |-> <<>>, members |-> <<>>, locations |-> <<>>, transactions |-> <<>>,
     sqlite_sequence |-> NoRows]

Returned(d) == [db |-> d, raised |-> FALSE]
Raised(d) == [db |-> d, raised |-> TRUE]

(* SELECT type FROM sqlite_master WHERE name=? *)
object_type(d, name) == d.sqlite_master[name]

(* DROP VIEW name / DROP INDEX name when the name is not a table's *)
ensure_is_table(d, name) ==
    LET t == object_type(d, name)
    IN IF t # "none" /\ t # "table"
       THEN [d EXCEPT !.sqlite_master[name] = "none"]
       ELSE d

(* Mutant: DROP TABLE IF EXISTS name; CREATE TABLE name(...). *)
CreateTableAfresh(d, name) ==
    IF object_type(d, name) = "index" THEN Raised(d)
    ELSE IF object_type(d, name) = "view" THEN Returned(d)
    ELSE Returned([d EXCEPT !.sqlite_master[name] = "table", ![name] = <<>>])

(* CREATE TABLE IF NOT EXISTS name(...): nothing is done when a table or a *)
(* view has the name, and SQLite raises "there is already an index named"  *)
(* when an index has it.                                                   *)
CreateTableIfNotExists(d, name) ==
    LET t == object_type(d, name)
    IN IF t = "index" THEN Raised(d)
       ELSE IF t = "none" THEN Returned([d EXCEPT !.sqlite_master[name] = "table"])
       ELSE Returned(d)

(* CREATE INDEX IF NOT EXISTS name ON transactions(...) *)
CreateIndexIfNotExists(d, name) ==
    IF object_type(d, name) = "none"
    THEN [d EXCEPT !.sqlite_master[name] = "index"]
    ELSE d

(* The column "issue_date TEXT DEFAULT DATE('now')" of the transactions    *)
(* DDL (line 89): SQLite takes a literal, a signed number or an expression *)
(* in parentheses after DEFAULT, and rejects the statement with            *)
(* OperationalError: near "(": syntax error, whether or not the table      *)
(* exists.                                                                 *)
TransactionsDdlParses == FALSE

(* init_db.  Each DDL statement is committed as it runs, so what was       *)
(* created or dropped before a statement raises stays.                     *)
init_db(d) ==
    LET r1 == CreateTableIfNotExists(d, "books")
        r2 == CreateTableIfNotExists(r1.db, "members")
        r3 == CreateTableIfNotExists(r2.db, "locations")
        d4 == ensure_is_table(r3.db, "transactions")
        r5 == CreateTableIfNotExists(d4, "transactions")
    IN IF r1.raised THEN r1
       ELSE IF r2.raised THEN r2
       ELSE IF r3.raised THEN r3
       ELSE IF ~TransactionsDdlParses THEN Raised(d4)
       ELSE IF r5.raised THEN r5
       ELSE Returned(CreateIndexIfNotExists(
                         CreateIndexIfNotExists(r5.db, "ix_trans_open"), "ix_trans_member"))

(* Mutant: locations.name without its UNIQUE constraint. *)
LocationNameNeverTaken(d, name) == FALSE

(* name TEXT UNIQUE: a row of locations has the name already. *)
LocationNameTaken(d, name) ==
    \E k \in 1..Len(d.locations) : d.locations[k].name = name

(* INSERT OR IGNORE INTO locations(name, description) *)
InsertOrIgnoreLocation(d, name, description) ==
    LET id == d.sqlite_sequence["locations"] + 1
        counted == [d EXCEPT !.sqlite_sequence["locations"] = id]
    IN IF LocationNameTaken(d, name)
       THEN counted
       ELSE [counted EXCEPT !.locations =
                 Append(@, [id |-> id, name |-> name, description |-> description])]

CompartmentName(i) == "Compartment " \o ToString(i)
CompartmentDescription(i) == "Shelf compartment #" \o ToString(i)

(* for i in range(1, n + 1): INSERT OR IGNORE INTO locations(name,         *)
(* description) VALUES("Compartment i", "Shelf compartment #i").  The loop *)
(* as one step: attempt i takes id sqlite_sequence + i, and is ignored     *)
(* when a row was called Compartment i before the loop (the names of the   *)
(* loop differ from one another).                                          *)
SeedCompartments(d, n) ==
    LET first == d.sqlite_sequence["locations"]
        missing == {i \in 1..n : ~LocationNameTaken(d, CompartmentName(i))}
        nth(j) == CHOOSE i \in missing : Cardinality({m \in missing : m < i}) = j - 1
        inserted == [j \in 1..Cardinality(missing) |->
                        [id |-> first + nth(j), name |-> CompartmentName(nth(j)),
                         description |-> CompartmentDescription(nth(j))]]
    IN [d EXCEPT !.sqlite_sequence["locations"] = first + n,
                 !.locations = @ \o inserted]

(* ensure_default_locations(n).  An INSERT into a view raises, and the     *)
(* connection rolls the inserts of the call back.                          *)
ensure_default_locations(d, n) ==
    LET r == CreateTableIfNotExists(d, "locations")
    IN IF r.raised THEN r
       ELSE IF n >= 1 /\ object_type(r.db, "locations") # "table" THEN Raised(r.db)
       ELSE Returned(SeedCompartments(r.db, n))

(* main, up to the page: init_db(); ensure_default_locations(45); then the *)
(* page chosen in the sidebar, the Dashboard (which only reads) on a load. *)
main(d) ==
    LET r == init_db(d)
    IN IF r.raised THEN r ELSE ensure_default_locations(r.db, DefaultN)

(***************************************************************************)
(* Page handlers.  Each yields the store after the handler and what the    *)
(* page showed: "success" (st.success), "error" (st.error), "exception"    *)
(* (an sqlite3 error nothing catches; the connection rolls back), "none".  *)
(***************************************************************************)
Shown(d, what) == [db |-> d, outcome |-> what]

NoDate == <<>>
DateOf(day) == <<day>>

BookRow(id, title, author, genre, default_location) ==
    [id |-> id, title |-> title, author |-> author, genre |-> genre,
     default_location |-> default_location, tags |-> SqlNull, notes |-> SqlNull]

HasBookKey(d, title, author) ==
    \E k \in 1..Len(d.books) : d.books[k].title = title /\ d.books[k].author = author

(* Two rows of books agree on (title, author): CREATE UNIQUE INDEX raises  *)
(* IntegrityError on such a table.                                         *)
HasDuplicateBookKeys(d) ==
    \E i, j \in 1..Len(d.books) :
        /\ i < j
        /\ d.books[i].title = d.books[j].title
        /\ d.books[i].author = d.books[j].author

UniqueBooks(d) == d.sqlite_master["idx_books_title_author"] = "index"

(* page_books, "Add Book": a plain INSERT, which raises IntegrityError     *)
(* when idx_books_title_author exists and the key is taken.                *)
add_book(d, title, author, genre, default_loc) ==
    LET id == d.sqlite_sequence["books"] + 1
    IN IF strip(title) = "" THEN Shown(d, "none")
       ELSE IF UniqueBooks(d) /\ HasBookKey(d, strip(title), strip(author))
            THEN Shown(d, "exception")
       ELSE Shown([d EXCEPT !.sqlite_sequence["books"] = id,
                            !.books = Append(@, BookRow(id, strip(title), strip(author),
                                                        strip(genre), default_loc))],
                  "success")

(* select_location: [""] + the names of locations *)
LocationOptions(d) == {""} \cup {d.locations[k].name : k \in 1..Len(d.locations)}

(* page_members, "Add Member" *)
InsertMember(d, name, phone, email) ==
    LET id == d.sqlite_sequence["members"] + 1
    IN [d EXCEPT !.sqlite_sequence["members"] = id,
                 !.members = Append(@, [id |-> id, name |-> name, phone |-> phone,
                                        email |-> email])]

add_member(d, name, phone, email) ==
    IF strip(name) = "" THEN Shown(d, "none")
    ELSE Shown(InsertMember(d, strip(name), strip(phone), strip(email)), "success")

(* page_locations, "Add Location" *)
add_location(d, name, desc) ==
    IF strip(name) = "" THEN Shown(d, "none")
    ELSE Shown(InsertOrIgnoreLocation(d, strip(name), strip(desc)), "success")

(* Mutant: INSERT INTO books, with no unique index to stop it. *)
InsertBookAnyway(d, row) ==
    [d EXCEPT !.sqlite_sequence["books"] = @ + 1,
              !.books = Append(@, BookRow(d.sqlite_sequence["books"] + 1,
                                          row[1], row[2], row[3], row[4]))]

(* INSERT OR IGNORE INTO books(title, author, genre, default_location)     *)
(* under the unique index on (title, author).                              *)
InsertOrIgnoreBook(d, row) ==
    LET id == d.sqlite_sequence["books"] + 1
        counted == [d EXCEPT !.sqlite_sequence["books"] = id]
    IN IF HasBookKey(d, row[1], row[2])
       THEN counted
       ELSE [counted EXCEPT !.books = Append(@, BookRow(id, row[1], row[2], row[3], row[4]))]

RECURSIVE InsertOrIgnoreBooks(_, _)
InsertOrIgnoreBooks(d, rows) ==
    IF rows = <<>> THEN d
    ELSE InsertOrIgnoreBooks(InsertOrIgnoreBook(d, Head(rows)), Tail(rows))

RECURSIVE InsertMembers(_, _)
InsertMembers(d, rows) ==
    IF rows = <<>> THEN d
    ELSE InsertMembers(InsertMember(d, Head(rows)[1], Head(rows)[2], Head(rows)[3]),
                       Tail(rows))

RECURSIVE InsertOrIgnoreLocations(_, _)
InsertOrIgnoreLocations(d, rows) ==
    IF rows = <<>> THEN d
    ELSE InsertOrIgnoreLocations(InsertOrIgnoreLocation(d, Head(rows)[1], Head(rows)[2]),
                                 Tail(rows))

(* page_import_export, "Upload books.csv" *)
import_books(d, f) ==
    LET df == read_csv(f)
        rows == FrameRows(df, <<"title", "author", "genre", "default_location">>)
        indexed == [d EXCEPT !.sqlite_master["idx_books_title_author"] = "index"]
    IN IF ~HasColumns(df, BooksNeeded) THEN Shown(d, "error")
       ELSE IF ~UniqueBooks(d) /\ HasDuplicateBookKeys(d) THEN Shown(d, "exception")
       ELSE Shown(InsertOrIgnoreBooks(indexed, rows), "success")

(* page_import_export, "Upload members.csv" *)
import_members(d, f) ==
    LET df == read_csv(f)
    IN IF ~HasColumns(df, MembersNeeded) THEN Shown(d, "error")
       ELSE Shown(InsertMembers(d, FrameRows(df, <<"name", "phone", "email">>)), "success")

(* page_import_export, "Upload locations.csv" *)
import_locations(d, f) ==
    LET df == read_csv(f)
    IN IF ~HasColumns(df, LocationsNeeded) THEN Shown(d, "error")
       ELSE Shown(InsertOrIgnoreLocations(d, FrameRows(df, <<"name", "description">>)),
                  "success")

(* The orders in which ORDER BY key may deliver n rows: rows of equal key  *)
(* come in an order SQL leaves open.                                       *)
Orderings(n, Key(_)) ==
    {p \in [1..n -> 1..n] :
        /\ \A i, j \in 1..n : i # j => p[i] # p[j]
        /\ \A i, j \in 1..n : i < j => ~StrLess(Key(p[j]), Key(p[i]))}

(* page_import_export, "Export Books": SELECT * FROM books ORDER BY title, *)
(* df.to_csv(index=False).                                                 *)
BooksCsv(d, p) ==
    CsvFile(<<"id", "title", "author", "genre", "default_location", "tags", "notes">>,
            [i \in 1..Len(d.books) |->
                LET b == d.books[p[i]]
                IN <<ToString(b.id), CsvCell(b.title), CsvCell(b.author), CsvCell(b.genre),
                     CsvCell(b.default_location), CsvCell(b.tags), CsvCell(b.notes)>>])

export_books(d) ==
    {BooksCsv(d, p) : p \in Orderings(Len(d.books), LAMBDA k : d.books[k].title)}

(* select_book: f"{r.title} ~ {r.author}".strip(" ~") for each row of      *)
(* SELECT id, title, IFNULL(author,'') FROM books ORDER BY title.          *)
BookLabel(b) ==
    LET author == IF b.author = SqlNull THEN "" ELSE b.author
    IN rstrip(lstrip(b.title \o " " \o EmDash \o " " \o author, {" ", EmDash}),
              {" ", EmDash})

(* options.index(pick): the first option equal to the one picked *)
FirstEqual(n, Option(_), k) ==
    CHOOSE i \in 1..n :
        /\ Option(i) = Option(k)
        /\ \A j \in 1..n : Option(j) = Option(k) => i <= j

(* None, for an id *)
NoId == 0

(* What select_book can return as book_id: None when there is no book,     *)
(* else the user picks option k of an ordering.                            *)
select_book(d) ==
    IF d.books = <<>> THEN {NoId}
    ELSE {d.books[p[FirstEqual(Len(d.books), LAMBDA i : BookLabel(d.books[p[i]]), k)]].id :
             p \in Orderings(Len(d.books), LAMBDA i : d.books[i].title),
             k \in 1..Len(d.books)}

(* What select_member can return as member_id (the options are the names,  *)
(* ORDER BY name).                                                         *)
select_member(d) ==
    IF d.members = <<>> THEN {NoId}
    ELSE {d.members[p[FirstEqual(Len(d.members), LAMBDA i : d.members[p[i]].name, k)]].id :
             p \in Orderings(Len(d.members), LAMBDA i : d.members[i].name),
             k \in 1..Len(d.members)}

BookIds(d) == {d.books[k].id : k \in 1..Len(d.books)}
MemberIds(d) == {d.members[k].id : k \in 1..Len(d.members)}

(* Mutant: the Issue button is never disabled. *)
can_issue_always(book_id, member_id) == TRUE

(* can_issue = book_id is not None and member_id is not None; the Issue    *)
(* button is disabled without it.                                          *)
can_issue(book_id, member_id) == book_id # NoId /\ member_id # NoId

(* Mutant: Issue refuses a book that has an open transaction. *)
issue_unless_open(d, book_id, member_id, now, due) ==
    IF \E k \in 1..Len(d.transactions) :
           d.transactions[k].book_id = book_id /\ d.transactions[k].return_date = NoDate
    THEN Shown(d, "error")
    ELSE Shown([d EXCEPT !.sqlite_sequence["transactions"] = @ + 1,
                         !.transactions =
                             Append(@, [id |-> d.sqlite_sequence["transactions"] + 1,
                                        book_id |-> book_id, member_id |-> member_id,
                                        issue_date |-> DateOf(now), due_date |-> due,
                                        return_date |-> NoDate])],
               "success")

(* page_issue_return, "Issue":                                             *)
(* INSERT INTO transactions(book_id, member_id, issue_date, due_date)      *)
(* VALUES (?, ?, DATE('now'), ?).  With PRAGMA foreign_keys = ON a         *)
(* reference that is not NULL must be the id of a row.                     *)
issue(d, book_id, member_id, now, due) ==
    LET id == d.sqlite_sequence["transactions"] + 1
    IN IF \/ book_id # NoId /\ book_id \notin BookIds(d)
          \/ member_id # NoId /\ member_id \notin MemberIds(d)
       THEN Shown(d, "exception")
       ELSE Shown([d EXCEPT !.sqlite_sequence["transactions"] = id,
                            !.transactions =
                                Append(@, [id |-> id, book_id |-> book_id,
                                           member_id |-> member_id, issue_date |-> DateOf(now),
                                           due_date |-> due, return_date |-> NoDate])],
                  "success")

(* Mutant: open_df without WHERE t.return_date IS NULL. *)
AllTxnIds(d) == {d.transactions[k].id : k \in 1..Len(d.transactions)}

(* open_df: transactions JOIN books JOIN members WHERE return_date IS NULL *)
OpenTxnIds(d) ==
    {d.transactions[k].id : k \in
        {k \in 1..Len(d.transactions) :
            /\ d.transactions[k].return_date = NoDate
            /\ d.transactions[k].book_id \in BookIds(d)
            /\ d.transactions[k].member_id \in MemberIds(d)}}

(* page_issue_return, "Mark returned":                                     *)
(* UPDATE transactions SET return_date = DATE('now') WHERE id = ?          *)
mark_returned(d, chosen, now) ==
    Shown([d EXCEPT !.transactions =
               [k \in 1..Len(@) |->
                   IF @[k].id = chosen THEN [@[k] EXCEPT !.return_date = DateOf(now)]
                   ELSE @[k]]],
          "success")

(***************************************************************************)
(* Actions.  A guard on Len or on sqlite_sequence is a bound of the model, *)
(* not a condition of the code.                                            *)
(***************************************************************************)
Ignored(d, table, rows) == d.sqlite_sequence[table] - Len(rows)

WithinBounds(d) ==
    /\ Len(d.books) <= MaxBooks
    /\ Len(d.members) <= MaxMembers
    /\ Len(d.locations) <= DefaultN + MaxExtraLocations
    /\ Len(d.transactions) <= MaxTransactions
    /\ Ignored(d, "books", d.books) <= MaxIgnored
    /\ Ignored(d, "locations", d.locations) <= MaxIgnored

Show(shown) ==
    LET r == shown
    IN /\ WithinBounds(r.db)
       /\ db' = r.db
       /\ outcome' = r.outcome

AddBook(title, author, genre, default_loc) ==
    /\ default_loc \in LocationOptions(db)
    /\ Show(add_book(db, title, author, genre, default_loc))
    /\ UNCHANGED <<today, download, calls>>

AddMember(name, phone, email) ==
    /\ Show(add_member(db, name, phone, email))
    /\ UNCHANGED <<today, download, calls>>

AddLocation(name, desc) ==
    /\ Show(add_location(db, name, desc))
    /\ UNCHANGED <<today, download, calls>>

ImportBooks(f) ==
    /\ ~f.none
    /\ Show(import_books(db, f))
    /\ UNCHANGED <<today, download, calls>>

ImportMembers(f) ==
    /\ Show(import_members(db, f))
    /\ UNCHANGED <<today, download, calls>>

ImportLocations(f) ==
    /\ Show(import_locations(db, f))
    /\ UNCHANGED <<today, download, calls>>

ExportBooks ==
    /\ download' \in export_books(db)
    /\ outcome' = "success"
    /\ UNCHANGED <<db, today, calls>>

Issue(due) ==
    /\ \E book_id \in select_book(db), member_id \in select_member(db) :
           /\ can_issue(book_id, member_id)
           /\ Show(issue(db, book_id, member_id, today, due))
    /\ UNCHANGED <<today, download, calls>>

MarkReturned(chosen) ==
    /\ chosen \in OpenTxnIds(db)
    /\ Show(mark_returned(db, chosen, today))
    /\ UNCHANGED <<today, download, calls>>

(* DATE('now') moves on. *)
NextDay ==
    /\ today < MaxDay
    /\ today' = today + 1
    /\ UNCHANGED <<db, download, outcome, calls>>

Called(r, fn) ==
    /\ calls[fn] < MaxCalls
    /\ calls' = [calls EXCEPT ![fn] = @ + 1]
    /\ db' = r.db
    /\ outcome' = IF r.raised THEN "exception" ELSE "returned"
    /\ UNCHANGED <<today, download>>

InitDbCall == Called(init_db(db), "init_db")

EnsureDefaultLocationsCall == Called(ensure_default_locations(db, DefaultN), "ensure")

(* A load of the app: main(), showing the Dashboard. *)
Main == Called(main(db), "main")

(***************************************************************************)
(* Spec: init_db, ensure_default_locations and main on library.db as it is *)
(* found.  Each required name is absent or names a table, a view or an     *)
(* index; a table that is found holds a row written earlier.               *)
(***************************************************************************)
FoundKinds == {"none", "table", "view", "index"}

FoundLocations ==
    {<<>>,
     <<[id |-> 1, name |-> "Shelf", description |-> "old"]>>,
     <<[id |-> 1, name |-> CompartmentName(2), description |-> "old"]>>}

FoundDb(kind, locs) ==
    LET has(n) == kind[n] = "table"
        whole == has("books") /\ has("members") /\ has("transactions")
    IN [sqlite_master |->
            [n \in ObjectNames |->
                IF n \in DOMAIN kind THEN kind[n]
                ELSE IF n \in {"ix_trans_open", "ix_trans_member"} /\ has("transactions")
                     THEN "index"
                ELSE "none"],
        books |-> IF has("books") THEN <<BookRow(1, "A", "X", "G", "")>> ELSE <<>>,
        members |-> IF has("members")
                    THEN <<[id |-> 1, name |-> "M", phone |-> "", email |-> ""]>>
                    ELSE <<>>,
        locations |-> IF has("locations") THEN locs ELSE <<>>,
        transactions |->
            IF whole
            THEN <<[id |-> 1, book_id |-> 1, member_id |-> 1, issue_date |-> DateOf(0),
                    due_date |-> NoDate, return_date |-> NoDate]>>
            ELSE <<>>,
        sqlite_sequence |->
            [t \in DOMAIN NoRows |->
                IF t = "locations" THEN (IF has(t) THEN Len(locs) ELSE 0)
                ELSE IF t = "transactions" THEN (IF whole THEN 1 ELSE 0)
                ELSE IF has(t) THEN 1 ELSE 0]]

NoCalls == [init_db |-> 0, ensure |-> 0, main |-> 0]

Init ==
    /\ \E kind \in [{"books", "members", "locations", "transactions"} -> FoundKinds],
          locs \in FoundLocations :
            /\ kind["locations"] # "table" => locs = <<>>
            /\ db = FoundDb(kind, locs)
    /\ today = 0
    /\ download = NoFile
    /\ outcome = "none"
    /\ calls = NoCalls

Next ==
    \/ InitDbCall
    \/ EnsureDefaultLocationsCall
    \/ Main

Spec == Init /\ [][Next]_vars

(***************************************************************************)
(* The store the pages are written for: the four tables and two indexes    *)
(* that the DDL of init_db declares, and the compartments main() seeds     *)
(* before it shows a page.                                                 *)
(***************************************************************************)
DeclaredDb ==
    [EmptyDb EXCEPT !.sqlite_master =
        [n \in ObjectNames |->
            IF n \in {"books", "members", "locations", "transactions"} THEN "table"
            ELSE IF n \in {"ix_trans_open", "ix_trans_member"} THEN "index"
            ELSE "none"]]

PagesInit ==
    /\ db = ensure_default_locations(DeclaredDb, DefaultN).db
    /\ today = 0
    /\ download = NoFile
    /\ outcome = "none"
    /\ calls = NoCalls

(***************************************************************************)
(* SpecIssue: Issue / Return, with the Books and Members forms and the     *)
(* members upload feeding it.                                              *)
(***************************************************************************)
DueDates == {NoDate, DateOf(MaxDay)}

IssueMembersFiles ==
    {CsvFile(<<"name", "phone", "email">>, <<<<"M", "5", "m">>>>)}

NextIssue ==
    \/ \E title \in {"A", "B"} : AddBook(title, "", "", "")
    \/ \E name \in {"M", "N"} : AddMember(name, "", "")
    \/ \E f \in IssueMembersFiles : ImportMembers(f)
    \/ \E due \in DueDates : Issue(due)
    \/ \E chosen \in OpenTxnIds(db) : MarkReturned(chosen)
    \/ NextDay

SpecIssue == PagesInit /\ [][NextIssue]_vars

(***************************************************************************)
(* SpecImport: Import / Export, with the Books and Locations forms.        *)
(***************************************************************************)
BooksHeader == <<"title", "author", "genre", "default_location">>

BooksCells == {<<"A", "X", "G", "">>, <<" B ", "", "G", "">>, <<"007", "X", "H", "">>}

BooksFiles ==
    {CsvFile(BooksHeader, rows) :
        rows \in {<<>>} \cup {<<r>> : r \in BooksCells}
                 \cup {<<<<"A", "X", "H", "">>, <<" B ", "", "G", "">>>>,
                       <<<<"007", "X", "H", "">>, <<"007", "X", "G", "">>>>}}
    \cup {CsvFile(<<"Author", "TITLE", "Genre", "Default_Location">>,
                  <<<<"X", "A", "K", "">>>>),
          CsvFile(<<"title", "author", "genre">>, <<<<"A", "X", "G">>>>),
          CsvFile(<<"Title", "Genre", "Default_Location">>, <<<<"A", "G", "">>>>)}

MembersFiles ==
    {CsvFile(<<"name", "phone", "email">>, <<<<"M", "5", "m">>>>),
     CsvFile(<<"Name", "PHONE", "eMail">>, <<<<" M", "5", "m">>>>),
     CsvFile(<<"name", "phone">>, <<<<"M", "5">>>>)}

LocationsFiles ==
    {CsvFile(<<"name", "description">>, <<<<"Shelf", "s">>>>),
     CsvFile(<<"name", "description">>, <<<<CompartmentName(1), "dup">>, <<"Shelf", "s">>>>),
     CsvFile(<<"Description", "NAME">>, <<<<"s", " Shelf">>>>),
     CsvFile(<<"name">>, <<<<"Shelf">>>>)}

NextImport ==
    \/ \E title \in {"A", "007"}, author \in {"", "X"} : AddBook(title, author, "G", "")
    \/ \E name \in {"Shelf", CompartmentName(1)} : AddLocation(name, "s")
    \/ \E f \in BooksFiles \cup {download} : ImportBooks(f)
    \/ \E f \in MembersFiles : ImportMembers(f)
    \/ \E f \in LocationsFiles : ImportLocations(f)
    \/ ExportBooks

SpecImport == PagesInit /\ [][NextImport]_vars

(***************************************************************************)
(* Properties of init_db and ensure_default_locations, under Spec.         *)
(***************************************************************************)
InitDbRan == calls["init_db"] + calls["main"] >= 1

(* C4: init_db is idempotent: a call of init_db on a store on which        *)
(* init_db has run before (by itself or in main), whatever has run in      *)
(* between, leaves every object of sqlite_master, every row of every table *)
(* and every counter as it was.                                            *)
C4_InitDbIdempotent ==
    [][(InitDbCall /\ InitDbRan) => db' = db]_vars

(* A second init_db has run on a store with rows in it. *)
C4_Witness ==
    /\ calls["init_db"] = 2
    /\ db.books # <<>>
    /\ Len(db.locations) >= DefaultN

CompartmentRows(d, i) == {k \in 1..Len(d.locations) : d.locations[k].name = CompartmentName(i)}

(* C5: seeding is insert-if-absent: a call of ensure_default_locations(45) *)
(* that returns leaves exactly one row named Compartment i for each i in   *)
(* 1..45 and, started on an empty table, 45 rows in all; it leaves the     *)
(* rows that were there as they were; and a call after an earlier call     *)
(* changes no row and adds none.                                           *)
C5_SeedingInsertIfAbsent ==
    [][EnsureDefaultLocationsCall =>
         /\ outcome' = "returned" =>
              /\ \A i \in 1..DefaultN : Cardinality(CompartmentRows(db', i)) = 1
              /\ db.locations = <<>> => Len(db'.locations) = DefaultN
         /\ SubSeq(db'.locations, 1, Len(db.locations)) = db.locations
         /\ calls["ensure"] >= 1 => db'.locations = db.locations]_vars

(* ensure_default_locations(45) has returned twice on a table that was     *)
(* empty: 45 rows, not 90.                                                 *)
C5_Witness ==
    /\ calls["ensure"] = 2
    /\ outcome = "returned"
    /\ Len(db.locations) = DefaultN

(* C8: every call of init_db leaves each of the four required names        *)
(* naming a table, having dropped whatever else had the name, and drops no *)
(* table: the rows of a table that was there are still there.              *)
C8_InitDbLeavesFourTables ==
    [][InitDbCall =>
         \A n \in {"books", "members", "locations", "transactions"} :
            /\ db'.sqlite_master[n] = "table"
            /\ db.sqlite_master[n] = "table" => db'[n] = db[n]]_vars

(***************************************************************************)
(* Properties of the Issue / Return page, under SpecIssue.                 *)
(***************************************************************************)
(* C1: in every step, every transaction stays in place with its id; one    *)
(* that has a return_date keeps that return_date; one whose return_date    *)
(* was NULL gets a return_date only in a "Mark returned" step that chose   *)
(* its id, and the date it gets is the day of that step; and a transaction *)
(* that the step creates has return_date NULL.                             *)
C1_ReturnDateSetOnceByMarkReturned ==
    [][/\ Len(db'.transactions) >= Len(db.transactions)
       /\ \A k \in 1..Len(db.transactions) :
            LET t == db.transactions[k]
                u == db'.transactions[k]
            IN /\ u.id = t.id
               /\ t.return_date # NoDate => u.return_date = t.return_date
               /\ (t.return_date = NoDate /\ u.return_date # NoDate) =>
                     /\ MarkReturned(t.id)
                     /\ u.return_date = DateOf(today)
       /\ \A k \in (Len(db.transactions) + 1)..Len(db'.transactions) :
            db'.transactions[k].return_date = NoDate]_vars

(* A transaction returned on an earlier day, another still open, and an    *)
(* action taken since.                                                     *)
C1_Witness ==
    \E j, k \in 1..Len(db.transactions) :
        /\ db.transactions[j].return_date = DateOf(0)
        /\ db.transactions[k].return_date = NoDate
        /\ db.transactions[k].issue_date = DateOf(1)
        /\ today = 1

(* C9: an Issue step appends exactly one transaction, with return_date     *)
(* NULL, issue_date the day of the step and due_date the date chosen (NULL *)
(* when none was); it changes no transaction that was there; and the Issue *)
(* button is enabled whenever there is a book and a member, whatever       *)
(* transactions are open.                                                  *)
C9_IssueCreatesOneOpenTransaction ==
    [][/\ \A due \in DueDates :
            Issue(due) =>
                /\ Len(db'.transactions) = Len(db.transactions) + 1
                /\ SubSeq(db'.transactions, 1, Len(db.transactions)) = db.transactions
                /\ LET t == db'.transactions[Len(db'.transactions)]
                   IN /\ t.return_date = NoDate
                      /\ t.issue_date = DateOf(today)
                      /\ t.due_date = due
                      /\ t.id \notin {db.transactions[k].id : k \in 1..Len(db.transactions)}
       /\ (db.books # <<>> /\ db.members # <<>>) =>
             \A b \in select_book(db), m \in select_member(db) : can_issue(b, m)]_vars

(* One book with two open transactions, the second without a due date. *)
C9_Witness ==
    /\ Len(db.transactions) = 2
    /\ db.transactions[1].book_id = db.transactions[2].book_id
    /\ db.transactions[1].return_date = NoDate
    /\ db.transactions[2].return_date = NoDate
    /\ db.transactions[1].due_date # NoDate
    /\ db.transactions[2].due_date = NoDate

(* C10: every transaction's book_id is the id of a row of books and its    *)
(* member_id the id of a row of members; and the Issue button is disabled  *)
(* when books or members is empty.                                         *)
C10_ReferentialIntegrity ==
    /\ \A k \in 1..Len(db.transactions) :
          /\ db.transactions[k].book_id \in BookIds(db)
          /\ db.transactions[k].member_id \in MemberIds(db)
    /\ (db.books = <<>> \/ db.members = <<>>) =>
          \A b \in select_book(db), m \in select_member(db) : ~can_issue(b, m)

(* Transactions on two books and two members. *)
C10_Witness ==
    /\ Len(db.transactions) = 2
    /\ db.transactions[1].book_id # db.transactions[2].book_id
    /\ db.transactions[1].member_id # db.transactions[2].member_id

(***************************************************************************)
(* Properties of the Import / Export page, under SpecImport.               *)
(***************************************************************************)
BooksUploads == BooksFiles \cup {download}

(* A required column is missing from the header, whatever the case. *)
Lacks(f, needed) ==
    \E c \in needed : \A j \in 1..Len(f.columns) : lower(f.columns[j]) # c

(* C2: in every state and for every books.csv with the required columns,   *)
(* importing the file twice in succession leaves as many rows in books as  *)
(* importing it once.                                                      *)
C2_SecondImportInsertsNothing ==
    \A f \in BooksUploads :
        (~f.none /\ ~Lacks(f, BooksNeeded)) =>
            LET once == import_books(db, f).db
            IN Len(import_books(once, f).db.books) = Len(once.books)

(* A file with rows has been imported on a store that held all its keys:   *)
(* its inserts were ignored.                                               *)
C2_Witness ==
    /\ outcome = "success"
    /\ UniqueBooks(db)
    /\ Len(db.books) = 2
    /\ Ignored(db, "books", db.books) >= 1
    /\ \E f \in BooksFiles : Len(f.rows) = 2 /\ ~Lacks(f, BooksNeeded)
                             /\ import_books(db, f).db.books = db.books

(* C3: importing the file that "Export Books" has just written leaves the  *)
(* rows of books as they are.                                              *)
C3_ExportImportRoundTrip ==
    [][(~download.none /\ download \in export_books(db) /\ ImportBooks(download)) =>
          db'.books = db.books]_vars

(* C6: in every state, an import of a file that lacks a required column   *)
(* shows the error and leaves the store as it is; an import of a file that *)
(* has them all, in any case, does not show the error: members.csv and     *)
(* locations.csv are imported, and books.csv reaches its INSERTs (which    *)
(* succeed, or SQLite raises).                                             *)
C6_MissingColumnsRejected ==
    /\ \A f \in BooksUploads :
          ~f.none =>
              LET r == import_books(db, f)
              IN IF Lacks(f, BooksNeeded) THEN r.db = db /\ r.outcome = "error"
                 ELSE r.outcome \in {"success", "exception"}
    /\ \A f \in MembersFiles :
          LET r == import_members(db, f)
          IN IF Lacks(f, MembersNeeded) THEN r.db = db /\ r.outcome = "error"
             ELSE /\ r.outcome = "success"
                  /\ Len(r.db.members) = Len(db.members) + Len(f.rows)
    /\ \A f \in LocationsFiles :
          LET r == import_locations(db, f)
          IN IF Lacks(f, LocationsNeeded) THEN r.db = db /\ r.outcome = "error"
             ELSE r.outcome = "success"

(* A file with its header in another case has been imported, and the last  *)
(* upload was rejected.                                                    *)
C6_Witness ==
    /\ outcome = "error"
    /\ \E k \in 1..Len(db.books) : db.books[k].genre = "K"
    /\ db.members # <<>>

(* C7: an import of books.csv or locations.csv with the required columns   *)
(* ends without an error, leaves the rows that were there as they were,    *)
(* and leaves every key of the file in the table.                          *)
C7_DuplicatesSkippedWithoutError ==
    [][/\ \A f \in BooksFiles :
            (ImportBooks(f) /\ ~Lacks(f, BooksNeeded)) =>
                /\ outcome' = "success"
                /\ SubSeq(db'.books, 1, Len(db.books)) = db.books
                /\ LET inserted == import_books(DeclaredDb, f).db.books
                   IN \A k \in 1..Len(inserted) :
                         HasBookKey(db', inserted[k].title, inserted[k].author)
       /\ \A f \in LocationsFiles :
            (ImportLocations(f) /\ ~Lacks(f, LocationsNeeded)) =>
                /\ outcome' = "success"
                /\ SubSeq(db'.locations, 1, Len(db.locations)) = db.locations]_vars

====
